---- MODULE Spec2Model ----
\* NewsShorts feed client (frontend/src/pages/NewsFeed.jsx) and card renderer
\* (frontend/src/components/NewsCard.jsx), with the Feed Service and the Summary
\* Store they talk to.
EXTENDS Integers, Sequences, FiniteSets, TLC

VARIABLES
    news,              \* useState([])      NewsFeed.jsx:25
    loading,           \* useState(true)    NewsFeed.jsx:26
    refreshing,        \* useState(false)   NewsFeed.jsx:27
    error,             \* useState(null)    NewsFeed.jsx:28
    selectedCategory,  \* useState('all')   NewsFeed.jsx:29
    mounted,           \* has the mount effect (NewsFeed.jsx:72-74) run
    requests,          \* axios requests in flight: id -> request
    nextId,            \* id of the next request to be issued
    store,             \* the Summary Store: sequence of records
    card,              \* NewsCard props.news: [category, timestamp]
    now,               \* new Date() at render time, ms
    tz,                \* local zone offset used by toLocaleDateString, ms
    badge,             \* rendered category label
    timeLabel          \* rendered relative-time label

feedVars == <<news, loading, refreshing, error, selectedCategory, mounted,
              requests, nextId, store>>
cardVars == <<card, now, tz, badge, timeLabel>>
vars == <<news, loading, refreshing, error, selectedCategory, mounted,
          requests, nextId, store, card, now, tz, badge, timeLabel>>

\* ---------------------------------------------------------------- bounds
MaxRequests == 5
MaxLen == 5

\* ------------------------------------------------------------- constants
null == "null"
ErrFailed == "Failed to load news"
ErrUnable == "Unable to fetch news. Please try again later."
NoCategory == "<none>"
NoResponse == [success |-> FALSE, news_items |-> <<>>]
Unrendered == [kind |-> "unrendered", n |-> 0]

CATEGORIES ==
    <<"all", "technology", "business", "science", "health", "sports",
      "entertainment", "world", "general">>

CategoryIds == {CATEGORIES[i] : i \in DOMAIN CATEGORIES}

Limit == 50

\* ------------------------------------------------- Feed Service and Store
SeedCount == 5

\* The fixed sample set written by Seed: five records, two on technology, two
\* on business and one on science; the k-th batch is newer than the (k-1)-th,
\* the first record of a batch its newest.
SampleCategory ==
    <<"technology", "technology", "business", "business", "science">>

SeedSample(k) ==
    [i \in 1..SeedCount |->
        [id |-> (k * 10) + i,
         category |-> SampleCategory[i],
         timestamp |-> (k * 10) + (SeedCount - i)]]

\* Stores the service may hold when the client mounts (ids below 10, older than
\* any sample).
InitialStores ==
    { <<>>,
      << [id |-> 1, category |-> "world", timestamp |-> 2],
         [id |-> 2, category |-> "technology", timestamp |-> 5] >> }

Batches(s) == Cardinality({s[i].id \div 10 : i \in DOMAIN s} \ {0})

RECURSIVE Filter(_, _)
Filter(s, c) ==
    IF s = <<>> THEN <<>>
    ELSE IF c \in {NoCategory, "all"} \/ Head(s).category = c
         THEN <<Head(s)>> \o Filter(Tail(s), c)
         ELSE Filter(Tail(s), c)

\* insert x into a sequence ordered by timestamp descending, after its equals
RECURSIVE Insert(_, _)
Insert(x, s) ==
    IF s = <<>> THEN <<x>>
    ELSE IF Head(s).timestamp >= x.timestamp
         THEN <<Head(s)>> \o Insert(x, Tail(s))
         ELSE <<x>> \o s

RECURSIVE SortDesc(_)
SortDesc(s) ==
    IF s = <<>> THEN <<>>
    ELSE Insert(s[Len(s)], SortDesc(SubSeq(s, 1, Len(s) - 1)))

Min(a, b) == IF a < b THEN a ELSE b

\* List(filter, limit): matching records, newest first, at most limit of them
List(s, c, limit) ==
    LET sorted == SortDesc(Filter(s, c))
    IN SubSeq(sorted, 1, Min(Len(sorted), limit))

\* ------------------------------------------------------------ Feed Client
Ids == DOMAIN requests

Remove(id) == [i \in Ids \ {id} |-> requests[i]]

Add(reqs, id, r) == [i \in (DOMAIN reqs) \cup {id} |-> IF i = id THEN r ELSE reqs[i]]

\* ids already issued plus the one List each outstanding Seed will still issue
Reserved == (nextId - 1) + Cardinality({i \in Ids : requests[i].kind = "seed"})

\* mutant of categoryParam: the parameter is sent for 'all' too
categoryParamAlways(category) == category

\* `&category=${category}` unless category is 'all'
categoryParam(category) == IF category # "all" THEN category ELSE NoCategory

ListRequest(origin, category) ==
    [kind |-> "list", origin |-> origin, limit |-> Limit,
     category |-> categoryParam(category), closure |-> category,
     stage |-> "sent", response |-> NoResponse]

SeedRequest(category) ==
    [kind |-> "seed", origin |-> "seed", limit |-> 0,
     category |-> NoCategory, closure |-> category,
     stage |-> "sent", response |-> NoResponse]

\* fetchNews up to its await: the indicator, setError(null), axios.get
fetchNews(isRefresh, category, origin, reqs) ==
    /\ refreshing' = IF isRefresh THEN TRUE ELSE refreshing
    /\ loading' = IF isRefresh THEN loading ELSE TRUE
    /\ error' = null
    /\ requests' = Add(reqs, nextId, ListRequest(origin, category))
    /\ nextId' = nextId + 1

\* mutant of Interactive: the controls are rendered while loading too
InteractiveWhileLoading == mounted

\* the component renders its controls only when it is not showing the skeleton
Interactive == mounted /\ ~loading

Init ==
    /\ news = <<>>
    /\ loading = TRUE
    /\ refreshing = FALSE
    /\ error = null
    /\ selectedCategory = "all"
    /\ mounted = FALSE
    /\ requests = <<>>
    /\ nextId = 1
    /\ store \in InitialStores
    /\ card = [category |-> <<>>, timestamp |-> [valid |-> TRUE, ms |-> 0]]
    /\ now = 0
    /\ tz = 0
    /\ badge = <<>>
    /\ timeLabel = Unrendered

\* useEffect(() => { fetchNews(); }, [])
Mount ==
    /\ ~mounted
    /\ mounted' = TRUE
    /\ fetchNews(FALSE, selectedCategory, "mount", requests)
    /\ UNCHANGED <<news, selectedCategory, store>>
    /\ UNCHANGED cardVars

\* mutant of Refresh: the button calls fetchNews() without isRefresh
RefreshAsLoad ==
    /\ Interactive
    /\ ~refreshing
    /\ Reserved + 1 <= MaxRequests
    /\ fetchNews(FALSE, selectedCategory, "refresh", requests)
    /\ UNCHANGED <<news, selectedCategory, mounted, store>>
    /\ UNCHANGED cardVars

\* Refresh button: onClick={() => fetchNews(true)} disabled={refreshing}
Refresh ==
    /\ Interactive
    /\ ~refreshing
    /\ Reserved + 1 <= MaxRequests
    /\ fetchNews(TRUE, selectedCategory, "refresh", requests)
    /\ UNCHANGED <<news, selectedCategory, mounted, store>>
    /\ UNCHANGED cardVars

handleCategoryChange(categoryId) ==
    /\ Interactive
    /\ Reserved + 1 <= MaxRequests
    /\ selectedCategory' = categoryId
    /\ fetchNews(FALSE, categoryId, "category", requests)
    /\ UNCHANGED <<news, mounted, store>>
    /\ UNCHANGED cardVars

\* mutant of SeedOffered: the empty state ignores error
SeedOfferedDespiteError == Interactive /\ Len(news) = 0

\* the empty state is rendered when news.length === 0 && !error
SeedOffered == Interactive /\ Len(news) = 0 /\ error = null

\* seedNews up to its first await
seedNews ==
    /\ SeedOffered
    /\ ~refreshing
    /\ Reserved + 2 <= MaxRequests
    /\ refreshing' = TRUE
    /\ requests' = Add(requests, nextId, SeedRequest(selectedCategory))
    /\ nextId' = nextId + 1
    /\ UNCHANGED <<news, loading, error, selectedCategory, mounted, store>>
    /\ UNCHANGED cardVars

\* mutant of fetchNewsResolve: a response for another filter than the selected
\* one is discarded
fetchNewsResolveGuarded(id) ==
    /\ id \in Ids
    /\ requests[id].kind = "list"
    /\ requests[id].stage = "responded"
    /\ IF requests[id].response.success
       THEN /\ news' = IF requests[id].closure = selectedCategory
                       THEN requests[id].response.news_items
                       ELSE news
            /\ error' = error
       ELSE /\ news' = news
            /\ error' = ErrFailed
    /\ loading' = FALSE
    /\ refreshing' = FALSE
    /\ requests' = Remove(id)
    /\ UNCHANGED <<selectedCategory, mounted, nextId, store>>
    /\ UNCHANGED cardVars

\* fetchNews after its await resolved: the response is applied
fetchNewsResolve(id) ==
    /\ id \in Ids
    /\ requests[id].kind = "list"
    /\ requests[id].stage = "responded"
    /\ IF requests[id].response.success
       THEN /\ news' = requests[id].response.news_items
            /\ error' = error
       ELSE /\ news' = news
            /\ error' = ErrFailed
    /\ loading' = FALSE
    /\ refreshing' = FALSE
    /\ requests' = Remove(id)
    /\ UNCHANGED <<selectedCategory, mounted, nextId, store>>
    /\ UNCHANGED cardVars

\* mutant of fetchNewsReject: the failure empties the list
fetchNewsRejectClearing(id) ==
    /\ id \in Ids
    /\ requests[id].kind = "list"
    /\ error' = ErrUnable
    /\ news' = <<>>
    /\ loading' = FALSE
    /\ refreshing' = FALSE
    /\ requests' = Remove(id)
    /\ UNCHANGED <<selectedCategory, mounted, nextId, store>>
    /\ UNCHANGED cardVars

\* fetchNews after its await rejected
fetchNewsReject(id) ==
    /\ id \in Ids
    /\ requests[id].kind = "list"
    /\ error' = ErrUnable
    /\ loading' = FALSE
    /\ refreshing' = FALSE
    /\ requests' = Remove(id)
    /\ UNCHANGED <<news, selectedCategory, mounted, nextId, store>>
    /\ UNCHANGED cardVars

\* seedNews after axios.post resolved: await fetchNews() of the render that
\* created this seedNews
seedNewsResolve(id) ==
    /\ id \in Ids
    /\ requests[id].kind = "seed"
    /\ requests[id].stage = "responded"
    /\ fetchNews(FALSE, requests[id].closure, "seed", Remove(id))
    /\ UNCHANGED <<news, selectedCategory, mounted, store>>
    /\ UNCHANGED cardVars

\* mutant of seedNewsReject: the catch without the finally block
seedNewsRejectNoFinally(id) ==
    /\ id \in Ids
    /\ requests[id].kind = "seed"
    /\ requests' = Remove(id)
    /\ UNCHANGED <<news, loading, refreshing, error, selectedCategory, mounted,
                   nextId, store>>
    /\ UNCHANGED cardVars

\* seedNews after axios.post rejected: console.error, finally setRefreshing(false)
seedNewsReject(id) ==
    /\ id \in Ids
    /\ requests[id].kind = "seed"
    /\ refreshing' = FALSE
    /\ requests' = Remove(id)
    /\ UNCHANGED <<news, loading, error, selectedCategory, mounted, nextId, store>>
    /\ UNCHANGED cardVars

\* ----------------------------------------------------------- Feed Service
Respond(id, resp) ==
    [requests EXCEPT ![id] = [@ EXCEPT !.stage = "responded", !.response = resp]]

\* GET /api/news?limit=..&category=.. answered with success
ServeList(id) ==
    /\ id \in Ids
    /\ requests[id].kind = "list"
    /\ requests[id].stage = "sent"
    /\ requests' = Respond(id, [success |-> TRUE,
                                news_items |-> List(store, requests[id].category,
                                                    requests[id].limit)])
    /\ UNCHANGED <<news, loading, refreshing, error, selectedCategory, mounted,
                   nextId, store>>
    /\ UNCHANGED cardVars

\* GET /api/news answered with success: false
ServeListFailure(id) ==
    /\ id \in Ids
    /\ requests[id].kind = "list"
    /\ requests[id].stage = "sent"
    /\ requests' = Respond(id, [success |-> FALSE, news_items |-> <<>>])
    /\ UNCHANGED <<news, loading, refreshing, error, selectedCategory, mounted,
                   nextId, store>>
    /\ UNCHANGED cardVars

\* POST /api/news/seed: appends the sample set (not idempotent)
ServeSeed(id) ==
    /\ id \in Ids
    /\ requests[id].kind = "seed"
    /\ requests[id].stage = "sent"
    /\ store' = store \o SeedSample(Batches(store) + 1)
    /\ requests' = Respond(id, [success |-> TRUE, news_items |-> <<>>])
    /\ UNCHANGED <<news, loading, refreshing, error, selectedCategory, mounted,
                   nextId>>
    /\ UNCHANGED cardVars

Next ==
    \/ Mount
    \/ Refresh
    \/ \E c \in CategoryIds : handleCategoryChange(c)
    \/ seedNews
    \/ \E id \in Ids : fetchNewsResolve(id)
    \/ \E id \in Ids : fetchNewsReject(id)
    \/ \E id \in Ids : seedNewsResolve(id)
    \/ \E id \in Ids : seedNewsReject(id)
    \/ \E id \in Ids : ServeList(id)
    \/ \E id \in Ids : ServeListFailure(id)
    \/ \E id \in Ids : ServeSeed(id)

Spec == Init /\ [][Next]_vars

\* ---------------------------------------------------------- Card Renderer
MsPerHour == 1000 * 60 * 60
MsPerDay == 24 * MsPerHour

\* String.prototype.toUpperCase, one character
UpperChar(ch) ==
    CASE ch = "a" -> "A"
      [] ch = "n" -> "N"
      [] OTHER -> ch

toUpperCase(s) == [i \in DOMAIN s |-> UpperChar(s[i])]

\* String.prototype.replace with a string pattern: the first occurrence only
RECURSIVE replace(_, _, _)
replace(s, pat, rep) ==
    IF s = <<>> THEN <<>>
    ELSE IF Head(s) = pat THEN <<rep>> \o Tail(s)
         ELSE <<Head(s)>> \o replace(Tail(s), pat, rep)

\* news.category.replace('_', ' ').toUpperCase()
categoryLabel(category) == toUpperCase(replace(category, "_", " "))

\* Date.prototype.toLocaleDateString: the calendar day in the local zone
toLocaleDateString(date, zone) ==
    IF date.valid THEN [kind |-> "date", n |-> (date.ms + zone) \div MsPerDay]
    ELSE [kind |-> "Invalid Date", n |-> 0]

\* mutant of formatTime: Math.round in place of Math.floor
formatTimeRounded(timestamp, current, zone) ==
    LET date == timestamp
        diffInHours == (current - date.ms + (1000 * 60 * 30)) \div (1000 * 60 * 60)
    IN IF date.valid /\ diffInHours < 1 THEN [kind |-> "Just now", n |-> 0]
       ELSE IF date.valid /\ diffInHours < 24
            THEN [kind |-> "h ago", n |-> diffInHours]
            ELSE toLocaleDateString(date, zone)

\* formatTime; an invalid Date makes diffInHours NaN, and NaN < x is false
formatTime(timestamp, current, zone) ==
    LET date == timestamp
        diffInHours == (current - date.ms) \div (1000 * 60 * 60)
    IN IF date.valid /\ diffInHours < 1 THEN [kind |-> "Just now", n |-> 0]
       ELSE IF date.valid /\ diffInHours < 24
            THEN [kind |-> "h ago", n |-> diffInHours]
            ELSE toLocaleDateString(date, zone)

\* inputs of a render
Chars == {"a", "n", "_"}

RECURSIVE Strings(_)
Strings(n) ==
    IF n = 0 THEN {<<>>}
    ELSE LET shorter == Strings(n - 1)
         IN shorter \cup {Append(s, ch) : s \in shorter, ch \in Chars}

\* clock readings, ms since the epoch (kept small: TLC integers are 32 bits wide)
Nows == {10 * MsPerDay + 30 * 60 * 1000, 10 * MsPerDay + 13 * MsPerHour + 1}

\* ages (now - timestamp) in ms; negative for a timestamp ahead of the clock
Ages ==
    {0 - MsPerHour, 0 - 1, 0, 1, 30 * 60 * 1000, MsPerHour - 1, MsPerHour,
     5 * MsPerHour, 5 * MsPerHour + 30 * 60 * 1000, 24 * MsPerHour - 1,
     24 * MsPerHour, 48 * MsPerHour}

Zones == {0, 0 - 5 * MsPerHour, 11 * (MsPerHour \div 2)}

InitCard ==
    /\ news = <<>>
    /\ loading = TRUE
    /\ refreshing = FALSE
    /\ error = null
    /\ selectedCategory = "all"
    /\ mounted = FALSE
    /\ requests = <<>>
    /\ nextId = 1
    /\ store = <<>>
    /\ now \in Nows
    /\ tz \in Zones
    /\ \E s \in Strings(MaxLen), a \in Ages, v \in BOOLEAN :
          card = [category |-> s,
                  timestamp |-> [valid |-> v, ms |-> IF v THEN now - a ELSE 0]]
    /\ badge = <<>>
    /\ timeLabel = Unrendered

\* one render of <NewsCard news={card} />
Render ==
    /\ timeLabel = Unrendered
    /\ badge' = categoryLabel(card.category)
    /\ timeLabel' = formatTime(card.timestamp, now, tz)
    /\ UNCHANGED <<card, now, tz>>
    /\ UNCHANGED feedVars

NextCard == Render

SpecCard == InitCard /\ [][NextCard]_vars

\* ================================================================= claims
Success(id) == requests[id].response.success

Items(id) == requests[id].response.news_items

\* the requests a step issues
Issued == (DOMAIN requests') \ Ids

\* a List failure is handled: the request rejected, or success = false
ListFailureHandled(id) ==
    \/ fetchNewsReject(id)
    \/ (fetchNewsResolve(id) /\ ~Success(id))

Range(s) == {s[i] : i \in DOMAIN s}

\* C1: whenever a successful List response is applied, under any interleaving
\* with other outstanding requests, items equals the response's news_items in
\* the order returned and error is null right after.
C1_SuccessReplacesItemsAndClearsError ==
    [][\A id \in Ids :
          (fetchNewsResolve(id) /\ Success(id))
              => (news' = Items(id) /\ error' = null)]_vars

\* C2: whenever a List request fails (it rejects, or its response has
\* success = false), error is set to a non-null message and items is left
\* exactly as it was.
C2_FailureSetsErrorKeepsItems ==
    [][\A id \in Ids :
          ListFailureHandled(id) => (error' # null /\ news' = news)]_vars

\* a List failure has been handled while cards were displayed
C2_Witness ==
    /\ error = ErrFailed
    /\ Len(news) > 0
    /\ ~loading

\* C3: every request failure the client handles (rejected List, List with
\* success = false, failed Seed) results in the one message
\* "Unable to fetch news. Please try again later.".
C3_OneMessageForEveryFailure ==
    [][\A id \in Ids :
          (ListFailureHandled(id) \/ seedNewsReject(id))
              => error' = "Unable to fetch news. Please try again later."]_vars

\* C4: a category change to c sets selectedCategory = c and loading = true and
\* issues exactly one List request, with limit = 50, carrying category = c when
\* c is not 'all' and no category parameter when c is 'all'.
C4_CategoryChangeIssuesFilteredList ==
    [][\A c \in CategoryIds :
          handleCategoryChange(c) =>
              /\ selectedCategory' = c
              /\ loading' = TRUE
              /\ Cardinality(Issued) = 1
              /\ \A i \in Ids : i \in DOMAIN requests' /\ requests'[i] = requests[i]
              /\ \A i \in Issued :
                    /\ requests'[i].kind = "list"
                    /\ requests'[i].limit = 50
                    /\ requests'[i].category = (IF c = "all" THEN NoCategory ELSE c)]_vars

\* a category change to 'technology' has issued its request
C4_Witness ==
    /\ selectedCategory = "technology"
    /\ loading
    /\ \E i \in Ids :
          /\ requests[i].origin = "category"
          /\ requests[i].category = "technology"
          /\ requests[i].limit = 50

\* the refresh action itself: one List request for the current category,
\* refreshing set, items, selectedCategory and loading untouched
RefreshFrame ==
    Refresh =>
        /\ refreshing' = TRUE
        /\ Cardinality(Issued) = 1
        /\ \A i \in Ids : i \in DOMAIN requests' /\ requests'[i] = requests[i]
        /\ \A i \in Issued :
              /\ requests'[i].kind = "list"
              /\ requests'[i].category =
                    (IF selectedCategory = "all" THEN NoCategory ELSE selectedCategory)
        /\ news' = news
        /\ selectedCategory' = selectedCategory
        /\ loading' = loading
        /\ loading = FALSE

\* a refresh request is outstanding before and after the step
RefreshPending(id) ==
    /\ requests[id].origin = "refresh"
    /\ id \in DOMAIN requests'

\* C5 as stated: a refresh issues one List for the current selectedCategory,
\* sets refreshing, leaves items, selectedCategory and loading unchanged, and
\* items keeps its value (loading stays false) until the response to that
\* request is applied.
C5_ItemsKeptUntilOwnResponse ==
    [][/\ RefreshFrame
       /\ \A id \in Ids :
             RefreshPending(id) => (news' = news /\ loading' = FALSE)]_vars

\* C5 amended: a refresh issues one List for the current selectedCategory, sets
\* refreshing and leaves items, selectedCategory and loading unchanged; while
\* its request is outstanding items changes only when a successful List
\* response (to another outstanding request) is applied, and loading becomes
\* true only by a category change or a completed Seed.
C5_RefreshKeepsItems ==
    [][/\ RefreshFrame
       /\ \A id \in Ids :
             RefreshPending(id) =>
                 /\ (news' # news =>
                        \E j \in Ids \ {id} : fetchNewsResolve(j) /\ Success(j))
                 /\ (loading' =>
                        \/ loading
                        \/ \E c \in CategoryIds : handleCategoryChange(c)
                        \/ \E j \in Ids : seedNewsResolve(j))]_vars

\* a refresh is outstanding with the cards still displayed
C5_Witness ==
    /\ refreshing
    /\ ~loading
    /\ Len(news) > 0
    /\ \E i \in Ids : requests[i].origin = "refresh" /\ requests[i].stage = "sent"

\* the Store holds nothing but seeded records: it was empty before Seed
OnlySeeded == \A i \in DOMAIN store : store[i].id >= 10

Matches(rec, c) == c = NoCategory \/ rec.category = c

\* the Seed action's ordering: offered on the empty state only, Seed first,
\* List only once Seed has resolved, nothing issued when Seed fails
SeedOrdering ==
    /\ seedNews =>
          /\ Len(news) = 0
          /\ error = null
          /\ Cardinality(Issued) = 1
          /\ \A i \in Issued : requests'[i].kind = "seed"
    /\ \A i \in Issued :
          requests'[i].origin = "seed" /\ requests'[i].kind = "list" =>
              \E j \in Ids :
                  /\ requests[j].kind = "seed"
                  /\ requests[j].stage = "responded"
                  /\ j \notin DOMAIN requests'
    /\ \A j \in Ids : seedNewsReject(j) => Issued = {}

\* C6 as stated: the Seed action is offered only when items is empty and error
\* is null; it issues Seed first and List only after Seed succeeded, so that
\* with a Store that was empty the applied List response makes the client
\* display the seeded records; a failed Seed issues no List.
C6_SeedThenListDisplaysSeeded ==
    [][/\ SeedOrdering
       /\ \A id \in Ids :
             (fetchNewsResolve(id) /\ Success(id) /\ requests[id].origin = "seed"
                 /\ OnlySeeded)
                 => \A i \in 1..SeedCount : SeedSample(1)[i] \in Range(news')]_vars

\* C6 amended: as stated, except that the applied List response makes the
\* client display the seeded records whose category matches the
\* selectedCategory of the moment Seed was invoked (all of them for 'all').
C6_SeedThenListDisplaysMatching ==
    [][/\ SeedOrdering
       /\ \A id \in Ids :
             (fetchNewsResolve(id) /\ Success(id) /\ requests[id].origin = "seed"
                 /\ OnlySeeded)
                 => /\ requests[id].category = categoryParam(requests[id].closure)
                    /\ \A i \in 1..SeedCount :
                          SeedSample(1)[i] \in Range(news')
                              <=> Matches(SeedSample(1)[i], requests[id].category)
                    /\ \A rec \in Range(news') :
                          Matches(rec, requests[id].category)]_vars

\* after a Seed invoked under 'technology' the client displays the two
\* technology samples only
C6_Witness ==
    /\ OnlySeeded
    /\ selectedCategory = "technology"
    /\ Ids = {}
    /\ ~loading
    /\ Len(news) = 2
    /\ \A rec \in Range(news) : rec.category = "technology" /\ rec.id >= 10

\* the request issued by the mount effect is still outstanding
MountPending == \E i \in Ids : requests[i].origin = "mount"

\* C7: from the initial state, mounting issues exactly one List request with no
\* category filter, and loading stays true with no user action (refresh,
\* category change, seed) possible until its response or failure is handled.
C7_MountLoadsUnfiltered ==
    /\ [][Mount =>
             /\ news = <<>> /\ loading /\ ~refreshing /\ error = null
             /\ selectedCategory = "all"
             /\ Ids = {}
             /\ Cardinality(Issued) = 1
             /\ \A i \in Issued :
                   /\ requests'[i].kind = "list"
                   /\ requests'[i].category = NoCategory
             /\ loading']_vars
    /\ [][MountPending =>
             /\ loading
             /\ Cardinality(Ids) = 1
             /\ ~Refresh
             /\ ~seedNews
             /\ \A c \in CategoryIds : ~handleCategoryChange(c)]_vars
    /\ [](MountPending => loading /\ Cardinality(Ids) = 1)

\* the service has answered the mount request and the client has not yet
\* handled the answer
C7_Witness ==
    /\ loading
    /\ \E i \in Ids : requests[i].origin = "mount" /\ requests[i].stage = "responded"

\* every '_' replaced by ' '
replaceAll(s, pat, rep) == [i \in DOMAIN s |-> IF s[i] = pat THEN rep ELSE s[i]]

Rendered == timeLabel # Unrendered

\* C8: the category label is the category with every underscore replaced by a
\* space and every letter upper-cased, for any category string, also one with
\* more than one separator.
C8_LabelReplacesEverySeparator ==
    Rendered => badge = toUpperCase(replaceAll(card.category, "_", " "))

\* C9: for a timestamp of age a >= 0 the label is "Just now" when a < 1 hour,
\* "Nh ago" with N = floor(a in hours) when 1 hour <= a < 24 hours, and a
\* calendar date when a >= 24 hours; 30 minutes gives "Just now", 5 hours
\* "5h ago", 48 hours a date.
C9_RelativeTimeLabel ==
    (Rendered /\ card.timestamp.valid /\ now - card.timestamp.ms >= 0) =>
        LET a == now - card.timestamp.ms
        IN /\ a < 3600000 => timeLabel = [kind |-> "Just now", n |-> 0]
           /\ (3600000 <= a /\ a < 24 * 3600000) =>
                 /\ timeLabel.kind = "h ago"
                 /\ timeLabel.n * 3600000 <= a
                 /\ a < (timeLabel.n + 1) * 3600000
           /\ a >= 24 * 3600000 => timeLabel.kind = "date"
           /\ a = 30 * 60000 => timeLabel.kind = "Just now"
           /\ a = 5 * 3600000 => timeLabel = [kind |-> "h ago", n |-> 5]
           /\ a = 48 * 3600000 => timeLabel.kind = "date"

\* a card five and a half hours old has been rendered as "5h ago"
C9_Witness ==
    /\ Rendered
    /\ card.timestamp.valid
    /\ now - card.timestamp.ms = 5 * 3600000 + 30 * 60000
    /\ timeLabel = [kind |-> "h ago", n |-> 5]

\* the response to id is not what the user last asked for: its filter is not
\* selectedCategory, or a request issued after it has already been handled
Superseded(id) ==
    \/ requests[id].closure # selectedCategory
    \/ \E j \in (id + 1)..(nextId - 1) : j \notin Ids

\* C10: responses to concurrently outstanding List requests are applied in
\* arrival order with no guard: a superseded successful response still
\* overwrites items, so a state is reachable with nothing outstanding, error
\* null and items the result of a List for another category than
\* selectedCategory.
C10_SupersededResponseOverwrites ==
    [][\A id \in Ids :
          (fetchNewsResolve(id) /\ Success(id) /\ Superseded(id))
              => news' = Items(id)]_vars

\* nothing outstanding, no error, and the cards are those of another filter
C10_Witness ==
    /\ Ids = {}
    /\ error = null
    /\ ~loading
    /\ news # List(store, categoryParam(selectedCategory), Limit)
    /\ \E c \in CategoryIds \ {selectedCategory} :
          news = List(store, categoryParam(c), Limit)

\* C11: no indicator is left stuck on: in every reachable state after mount in
\* which no List or Seed request is outstanding, loading = false and
\* refreshing = false, whatever the sequence and interleaving of refresh,
\* category-change and seed actions, the order of arrival and the mix of
\* successful and failed requests.
C11_NoIndicatorStuck ==
    (mounted /\ Ids = {}) => (loading = FALSE /\ refreshing = FALSE)

\* nothing outstanding after a Seed whose effect the client never displayed
\* (its answer was lost, or the List that followed it failed or matched
\* nothing): the Store holds samples, the list is empty, both indicators off
C11_Witness ==
    /\ mounted
    /\ Ids = {}
    /\ Len(store) >= SeedCount
    /\ OnlySeeded
    /\ Len(news) = 0
    /\ nextId > 3
    /\ ~loading
    /\ ~refreshing

====
